---- MODULE Spec2Model ----
(***************************************************************************)
(* Model of the websocket subscription layer and of the order book merge   *)
(* of python/ccxt/async_support/base/exchange.py (class Exchange).         *)
(*                                                                         *)
(* Two state machines share the module:                                    *)
(*   SpecOB   - the order book kept by mergeOrderBookDelta / updateBidAsk  *)
(*   Spec     - one caller task driving websocket_subscribe_all and        *)
(*              websocket_unsubscribe_all against the context store, the   *)
(*              delayed-connection batch, the once-handlers, the futures   *)
(*              and the call_later timers; FairSpec adds the fairness of   *)
(*              the asyncio event loop.                                     *)
(***************************************************************************)
EXTENDS Integers, Sequences, FiniteSets, TLC

VARIABLES
    wsconf,                       \* self.wsconf, the websocket configuration of the exchange
    bidsAsksDiff,              \* the side updateBidAskDiff mutates, with the increments
                                  \* received per price
    currentOrderBook,             \* the book mergeOrderBookDelta mutates
    websocketContexts,            \* self.websocketContexts
    websocketDelayedConnections,  \* self.websocketDelayedConnections (insertion order)
    handlers,                     \* listeners registered with self.once(oidstr)
    futures,                      \* asyncio.Future of each request id
    timers,                       \* pending call_later callbacks of timeout_future
    sent,                         \* request ids handed to the connection
    nonce,                        \* next value of self.nonce()
    call,                         \* the frame of the running subscribe/unsubscribe call
    parked,                       \* the frame and history of a second task suspended in
                                  \* an await, if there is one
    obs                           \* per-call history: connects, flushes, awaits

vars == <<wsconf, parked, bidsAsksDiff, currentOrderBook, websocketContexts, websocketDelayedConnections,
          handlers, futures, timers, sent, nonce, call, obs>>

wsvars == <<wsconf, parked, websocketContexts, websocketDelayedConnections,
            handlers, futures, timers, sent, nonce, call, obs>>

-----------------------------------------------------------------------------
(* Bounds *)

MaxPrice == 2
MaxAmount == 2
MaxDeltas == 1
MaxOid == 2
MaxSum == 4
MaxBatch == 2

-----------------------------------------------------------------------------
(* Order book merge engine *)

\* timestamp=None, the default of mergeOrderBookDelta
NoTimestamp == 0

Prices == 1..MaxPrice
Amounts == 0..MaxAmount
Timestamps == {NoTimestamp, 1}

\* a wire delta [price, amount]
BidAsks == Prices \X Amounts

RECURSIVE SeqsUpTo(_, _)
SeqsUpTo(S, n) ==
    IF n = 0 THEN {<<>>}
    ELSE LET shorter == SeqsUpTo(S, n - 1)
         IN shorter \cup {Append(q, x) : q \in {r \in shorter : Len(r) = n - 1}, x \in S}

\* the nested compare(a, b) of searchIndexToInsertOrUpdate
compare(a, b, direction) ==
    IF a < b THEN 0 - direction ELSE IF a > b THEN direction ELSE 0

\* the for loop of searchIndexToInsertOrUpdate, from (1-based) position i
RECURSIVE searchFrom(_, _, _, _)
searchFrom(value, orderedArray, direction, i) ==
    IF i > Len(orderedArray) THEN Len(orderedArray) + 1
    ELSE IF compare(orderedArray[i][1], value, direction) >= 0 THEN i
    ELSE searchFrom(value, orderedArray, direction, i + 1)

\* faulty variant: the descending flag is ignored
searchIndexDirectionAscending(descending) == 1

\* direction = -1 if descending else 1
searchIndexDirection(descending) == IF descending THEN -1 ELSE 1

searchIndexToInsertOrUpdate(value, orderedArray, descending) ==
    searchFrom(value, orderedArray, searchIndexDirection(descending), 1)

\* faulty variant: the levels after the removed one are dropped too
RemoveAtTruncates(s, index) == SubSeq(s, 1, index - 1)

\* del bidsAsksDiff[index]
RemoveAt(s, index) == SubSeq(s, 1, index - 1) \o SubSeq(s, index + 1, Len(s))

InsertAt(s, index, x) == SubSeq(s, 1, index - 1) \o <<x>> \o SubSeq(s, index, Len(s))

\* faulty variant: a level is inserted although the side holds its price
updateBidAskAlwaysInserts(bidAsk, currentBidsAsks, bids) ==
    IF bidAsk[2] # 0
    THEN InsertAt(currentBidsAsks, searchIndexToInsertOrUpdate(bidAsk[1], currentBidsAsks, bids),
                  bidAsk)
    ELSE currentBidsAsks

updateBidAsk(bidAsk, currentBidsAsks, bids) ==
    LET index == searchIndexToInsertOrUpdate(bidAsk[1], currentBidsAsks, bids)
    IN IF index <= Len(currentBidsAsks) /\ currentBidsAsks[index][1] = bidAsk[1]
       THEN IF bidAsk[2] = 0
            THEN RemoveAt(currentBidsAsks, index)
            ELSE [currentBidsAsks EXCEPT ![index] = bidAsk]
       ELSE IF bidAsk[2] # 0
            THEN InsertAt(currentBidsAsks, index, bidAsk)
            ELSE currentBidsAsks

\* the entries of a wire list: a [price, amount] array, an object that holds the price
\* and amount keys or lacks them, or a value that is neither (a number, null)
listEntry(bidAsk) == [shape |-> "list", keys |-> TRUE, price |-> bidAsk[1], amount |-> bidAsk[2]]

dictEntry(bidAsk) == [shape |-> "dict", keys |-> TRUE, price |-> bidAsk[1], amount |-> bidAsk[2]]

dictEntryWithoutKeys == [shape |-> "dict", keys |-> FALSE, price |-> 0, amount |-> 0]

otherEntry == [shape |-> "other", keys |-> FALSE, price |-> 0, amount |-> 0]

\* orderbook[bids_key]: a list of entries, or a value that is not a list
wireList(entries) == [isList |-> TRUE, entries |-> entries]

notAList == [isList |-> FALSE, entries |-> <<>>]

\* parse_bid_ask of the base class: [float(bidask[price_key]), float(bidask[amount_key])];
\* the wire values of the model are numbers, which float() keeps in value and in order
parse_bid_ask(bidask) == <<bidask.price, bidask.amount>>

\* the exception of the subscripts bidask[price_key], bidask[amount_key] in parse_bid_ask
parseBidAskRaises(bidask) ==
    IF bidask.shape = "other" THEN "TypeError"
    ELSE IF bidask.shape = "dict" /\ ~bidask.keys THEN "KeyError"
    ELSE "none"

\* (price_key in bidask) and (amount_key in bidask), with the default keys 0 and 1: on an
\* object the keys, on an array its values
holdsKeys(bidask) ==
    IF bidask.shape = "dict" THEN bidask.keys
    ELSE 0 \in {bidask.price, bidask.amount} /\ 1 \in {bidask.price, bidask.amount}

parsedAll(bidasks) == [k \in 1..Len(bidasks) |-> parse_bid_ask(bidasks[k])]

\* parse_bids_asks2(bidasks): the type of the first entry selects the loop; the levels it
\* returns, or the exception it raises
parse_bids_asks2(bidasks) ==
    IF bidasks = <<>> THEN [error |-> "none", result |-> <<>>]
    ELSE IF bidasks[1].shape = "list"
    THEN IF \E k \in 1..Len(bidasks) : parseBidAskRaises(bidasks[k]) # "none"
         THEN [error |-> parseBidAskRaises(
                             bidasks[CHOOSE k \in 1..Len(bidasks) :
                                        /\ parseBidAskRaises(bidasks[k]) # "none"
                                        /\ \A j \in 1..(k - 1) :
                                              parseBidAskRaises(bidasks[j]) = "none"]),
               result |-> <<>>]
         ELSE [error |-> "none", result |-> parsedAll(bidasks)]
    ELSE IF bidasks[1].shape = "dict"
    THEN IF \E k \in 1..Len(bidasks) : bidasks[k].shape = "other"
         THEN [error |-> "TypeError", result |-> <<>>]
         ELSE [error |-> "none", result |-> parsedAll(SelectSeq(bidasks, holdsKeys))]
    ELSE [error |-> "ExchangeError", result |-> <<>>]

\* bids / asks of mergeOrderBookDelta: a value that is not a list counts as []
parsedSide(value) ==
    IF value.isList THEN parse_bids_asks2(value.entries) ELSE [error |-> "none", result |-> <<>>]

\* the exception mergeOrderBookDelta raises on a message, "none" if it returns
mergeOrderBookDeltaRaises(orderbook) ==
    IF parsedSide(orderbook.bids).error # "none" THEN parsedSide(orderbook.bids).error
    ELSE parsedSide(orderbook.asks).error

\* the loops "for bid in bids" / "for ask in asks" of mergeOrderBookDelta
RECURSIVE applyDeltas(_, _, _)
applyDeltas(deltas, currentBidsAsks, bids) ==
    IF deltas = <<>> THEN currentBidsAsks
    ELSE applyDeltas(Tail(deltas), updateBidAsk(Head(deltas), currentBidsAsks, bids), bids)

\* the book after mergeOrderBookDelta: both sides are parsed before the first level is
\* merged, so a message that raises leaves the book as it is
mergeOrderBookDelta(book, orderbook, timestamp) ==
    LET bids == parsedSide(orderbook.bids)
        asks == parsedSide(orderbook.asks)
    IN IF bids.error # "none" \/ asks.error # "none" THEN book
       ELSE [bids |-> applyDeltas(bids.result, book.bids, TRUE),
             asks |-> applyDeltas(asks.result, book.asks, FALSE),
             timestamp |-> timestamp]

arrayList(bidAsks) == wireList([k \in 1..Len(bidAsks) |-> listEntry(bidAsks[k])])

\* delta messages of [price, amount] arrays: at most MaxDeltas levels in all
ArrayMessages ==
    UNION {{[bids |-> arrayList(b), asks |-> arrayList(a)] :
                b \in {q \in SeqsUpTo(BidAsks, k) : Len(q) = k},
                a \in SeqsUpTo(BidAsks, MaxDeltas - k)} : k \in 0..MaxDeltas}

\* the entry shapes a payload is built from, one of each
EntryShapes == {listEntry(<<1, 1>>), dictEntry(<<1, 1>>), dictEntryWithoutKeys, otherEntry}

\* a wire value that is no list of [price, amount] arrays and no list of objects holding
\* the price and amount keys
malformed(value) ==
    \/ ~value.isList
    \/ \E k \in 1..Len(value.entries) :
          \/ value.entries[k].shape = "other"
          \/ value.entries[k].shape = "dict" /\ ~value.entries[k].keys
          \/ value.entries[k].shape # value.entries[1].shape

\* the other wire values: a value that is not a list, lists of one or two entries
ShapedValues ==
    {notAList} \cup {wireList(<<e>>) : e \in EntryShapes}
               \cup {wireList(<<e, f>>) : e \in EntryShapes, f \in EntryShapes}

\* messages with one side of another wire shape, the other side empty
ShapedMessages ==
    {[bids |-> v, asks |-> wireList(<<>>)] : v \in ShapedValues}
        \cup {[bids |-> wireList(<<>>), asks |-> v] : v \in ShapedValues}

MalformedMessages == {m \in ShapedMessages : malformed(m.bids) \/ malformed(m.asks)}

\* the delta messages fed to the book
OrderBookMessages == ArrayMessages \cup ShapedMessages

EmptyOrderBook == [bids |-> <<>>, asks |-> <<>>, timestamp |-> NoTimestamp]

-----------------------------------------------------------------------------
(* Configuration (self.wsconf) and the requests a caller passes *)

\* an exchange whose events are served by aggregate-stream (ws-s) templates
StreamsConf == [events |-> {"ob", "trade"}]

\* an exchange whose event is served by a plain websocket (ws) template
PlainConf == [events |-> {"tick"}]

Configs == {StreamsConf, PlainConf}

\* an exchange with a plain websocket (ws) template that serves two symbols and a template
\* whose type the resolver does not know
MisconfiguredConf == [events |-> {"quote", "feed"}]

\* an exchange whose templates C, D and E are of the types socket.io, pusher and signalr
SocketsConf == [events |-> {"tick", "feed", "quote"}]

\* keys of wsconf['events']
wsconfEvents == wsconf.events

\* wsconf['events'][event]['conx-tpl']
conxTplOf(event) ==
    IF event = "ob" THEN "A"
    ELSE IF event = "tick" THEN "C"
    ELSE IF event = "feed" THEN "D"
    ELSE IF event = "quote" THEN "E"
    ELSE "B"

\* wsconf['conx-tpls'][tpl]['type']: the aggregate-stream templates A and B, the plain
\* websocket templates C and E, the template D of a type the resolver does not know; in
\* SocketsConf C, D and E are the socket.io, pusher and signalr templates; no template
\* sets wait4readyEvent
conxTplType(tpl) ==
    IF wsconf = SocketsConf
    THEN IF tpl = "C" THEN "ws-io" ELSE IF tpl = "D" THEN "pusher" ELSE "signalr"
    ELSE IF tpl \in {"C", "E"} THEN "ws" ELSE IF tpl = "D" THEN "sse" ELSE "ws-s"

Conxids == {"A", "B", "C", "D", "E"}

\* the (event, symbol) keys a context can hold
Pairs == {<<"ob", "s1">>, <<"ob", "s2">>, <<"trade", "s1">>, <<"tick", "s1">>,
          <<"quote", "s1">>, <<"quote", "s2">>, <<"feed", "s1">>}

\* entries of eventSymbols; "bad" is an event no configuration declares
Requests ==
    {[event |-> p[1], symbol |-> p[2]] : p \in Pairs} \cup {[event |-> "bad", symbol |-> "s1"]}

\* the requests a caller makes of an exchange configured with conf: for its events, and
\* for one event it does not know
RequestsOf(conf) == {r \in Requests : r.event \in conf.events \cup {"bad"}}

BatchesOf ==
    [conf \in Configs \cup {MisconfiguredConf, SocketsConf} |-> SeqsUpTo(RequestsOf(conf), MaxBatch)]

Batches == BatchesOf[wsconf]

Oids == 1..MaxOid

-----------------------------------------------------------------------------
(* Connection context store *)

\* a symbol the events mapping does not hold
NoSymbol == [present |-> FALSE, subscribed |-> FALSE, subscribing |-> FALSE]

\* 'conx': None
NoConx == [present |-> FALSE, auth |-> FALSE, ready |-> FALSE, state |-> "none", url |-> {}]

\* a connection id websocketContexts does not hold
NoContext == [present |-> FALSE, events |-> [p \in Pairs |-> NoSymbol], conx |-> NoConx]

websocketValidEvent(event) == event \in wsconfEvents

\* faulty variant: the flags of a context the store holds are left as they are
websocketResetContextKeepsFlags(ctxs, conxid) ==
    IF ~ctxs[conxid].present
    THEN [ctxs EXCEPT ![conxid] =
            [present |-> TRUE, events |-> [p \in Pairs |-> NoSymbol], conx |-> NoConx]]
    ELSE ctxs

\* _websocket_reset_context(conxid, conxtpl)
websocket_reset_context(ctxs, conxid) ==
    IF ~ctxs[conxid].present
    THEN [ctxs EXCEPT ![conxid] =
            [present |-> TRUE, events |-> [p \in Pairs |-> NoSymbol], conx |-> NoConx]]
    ELSE [ctxs EXCEPT ![conxid].events =
            [p \in Pairs |-> IF @[p].present
                             THEN [present |-> TRUE, subscribed |-> FALSE, subscribing |-> FALSE]
                             ELSE @[p]]]

contextResetSymbol(ctxs, conxid, event, symbol) ==
    [ctxs EXCEPT ![conxid].events[<<event, symbol>>] =
        [present |-> TRUE, subscribed |-> FALSE, subscribing |-> FALSE]]

contextSetSubscribed(ctxs, conxid, event, symbol, subscribed) ==
    [ctxs EXCEPT ![conxid].events[<<event, symbol>>].subscribed = subscribed]

\* self.websocketContexts[conxid] in _contextIsSubscribed, _contextIsSubscribing and
\* _contextGetEvents: the exception of the subscript, "none" if the store holds conxid
contextReadRaises(ctxs, conxid) == IF ctxs[conxid].present THEN "none" ELSE "KeyError"

\* the value _contextIsSubscribed returns when it returns
contextIsSubscribed(ctxs, conxid, event, symbol) ==
    /\ ctxs[conxid].events[<<event, symbol>>].present
    /\ ctxs[conxid].events[<<event, symbol>>].subscribed

\* faulty variant: the subscribing flag is not written
contextSetSubscribingIgnored(ctxs, conxid, event, symbol, subscribing) == ctxs

contextSetSubscribing(ctxs, conxid, event, symbol, subscribing) ==
    [ctxs EXCEPT ![conxid].events[<<event, symbol>>].subscribing = subscribing]

\* faulty variant: a symbol is never reported as subscribing
contextIsSubscribingNever(ctxs, conxid, event, symbol) == FALSE

contextIsSubscribing(ctxs, conxid, event, symbol) ==
    /\ ctxs[conxid].events[<<event, symbol>>].present
    /\ ctxs[conxid].events[<<event, symbol>>].subscribing

\* faulty variant: only the subscribed pairs are listed, not the subscribing ones
subscribedOnlyEventSymbols(ctxs, conxid) ==
    {p \in Pairs : ctxs[conxid].events[p].present /\ ctxs[conxid].events[p].subscribed}

websocketContextGetSubscribedEventSymbols(ctxs, conxid) ==
    {p \in Pairs : /\ ctxs[conxid].events[p].present
                   /\ (ctxs[conxid].events[p].subscribed \/ ctxs[conxid].events[p].subscribing)}

\* conx-param id defaults to '{id}': the connection id is the template name
websocketGetConxid4Event(event, symbol) == conxTplOf(event)

-----------------------------------------------------------------------------
(* Subscription action resolver *)

NoAction == [action |-> "none", type |-> "none", url |-> {}]

websocket_get_action_for_event(ctxs, conxid, event, symbol, subscription) ==
    LET isSubscribed == contextIsSubscribed(ctxs, conxid, event, symbol)
        isSubscribing == contextIsSubscribing(ctxs, conxid, event, symbol)
        type == conxTplType(conxTplOf(event))
        subscribed == websocketContextGetSubscribedEventSymbols(ctxs, conxid)
        rest == subscribed \ {<<event, symbol>>}
    IN IF subscription /\ (isSubscribed \/ isSubscribing) THEN NoAction
       ELSE IF ~subscription /\ ~isSubscribed /\ ~isSubscribing THEN NoAction
       ELSE IF type \in {"signalr", "ws-io", "pusher", "ws"}
            THEN [action |-> "connect", type |-> type, url |-> {}]
       ELSE IF type = "ws-s"
            THEN IF subscription
                 THEN [action |-> "reconnect", type |-> type,
                       url |-> subscribed \cup {<<event, symbol>>}]
                 ELSE IF rest = {}
                      THEN [action |-> "disconnect", type |-> type, url |-> {}]
                      ELSE [action |-> "reconnect", type |-> type, url |-> rest]
       ELSE [action |-> "NotSupported", type |-> type, url |-> {}]

\* the template types _websocket_initialize builds a WebsocketConnection for
websocketInitializable(type) == type \in {"signalr", "ws", "ws-s"}

\* faulty variant: the connection is built without the generated stream URL
websocketInitializeNoUrl(action) ==
    [present |-> TRUE, auth |-> FALSE, ready |-> FALSE, state |-> "new", url |-> {}]

\* the connection info _websocket_initialize returns: not ready, not connected
websocket_initialize(action) ==
    [present |-> TRUE, auth |-> FALSE, ready |-> FALSE, state |-> "new", url |-> action.url]

\* websocketClose(conxid): _contextGetConnectionInfo raises NotSupported on 'conx': None
websocketCloseRaises(ctxs, conxid) == ~ctxs[conxid].conx.present

\* websocketClose(conxid): websocket_conx_info['conx'].close()
websocketClose(ctxs, conxid) == [ctxs EXCEPT ![conxid].conx.state = "closed"]

\* conx.close(); on 'conx': None the AttributeError is swallowed
closeConx(ctxs, conxid) ==
    IF ctxs[conxid].conx.present
    THEN [ctxs EXCEPT ![conxid].conx.state = "closed"]
    ELSE ctxs

\* conx.isActive() of the WebsocketConnection
isActive(conx) == conx.state = "open"

RemoveConxid(delayed, conxid) == SelectSeq(delayed, LAMBDA c : c # conxid)

\* faulty variant: the connection id is queued again although it is queued already
AddConxidAgain(delayed, conxid) == Append(delayed, conxid)

\* if conxid not in list(self.websocketDelayedConnections.keys()): queue it
AddConxid(delayed, conxid) ==
    IF \E k \in 1..Len(delayed) : delayed[k] = conxid THEN delayed ELSE Append(delayed, conxid)

\* _websocket_ensure_conx_active(event, symbol, subscribe, params, delayed=True):
\* the contexts and the delayed batch it leaves, the conxid it returns, the error it raises
websocket_ensure_conx_active(ctxs, delayed, event, symbol, subscribe) ==
    LET conxid == websocketGetConxid4Event(event, symbol)
        c0 == IF ~ctxs[conxid].present THEN websocket_reset_context(ctxs, conxid) ELSE ctxs
        action == websocket_get_action_for_event(c0, conxid, event, symbol, subscribe)
        c1 == IF ~c0[conxid].events[<<event, symbol>>].present
              THEN contextResetSymbol(c0, conxid, event, symbol)
              ELSE c0
        canInit == websocketInitializable(action.type)
        initialized(c) == IF canInit
                          THEN [c EXCEPT ![conxid].conx = websocket_initialize(action)]
                          ELSE c
        initError == IF canInit THEN "none" ELSE "NotSupported"
    IN CASE action.action = "none" ->
              [ctxs |-> c0, delayed |-> delayed, conxid |-> conxid,
               action |-> "none", error |-> "none"]
         [] action.action = "NotSupported" ->
              [ctxs |-> c0, delayed |-> delayed, conxid |-> conxid,
               action |-> "none", error |-> "NotSupported"]
         [] action.action = "reconnect" ->
              [ctxs |-> initialized(closeConx(c1, conxid)),
               delayed |-> IF canInit THEN AddConxid(delayed, conxid) ELSE delayed,
               conxid |-> conxid, action |-> "reconnect", error |-> initError]
         [] action.action = "connect" ->
              IF c1[conxid].conx.present /\ isActive(c1[conxid].conx)
              THEN [ctxs |-> c1, delayed |-> AddConxid(delayed, conxid),
                    conxid |-> conxid, action |-> "connect", error |-> "none"]
              ELSE [ctxs |-> initialized(websocket_reset_context(closeConx(c1, conxid), conxid)),
                    delayed |-> IF canInit THEN AddConxid(delayed, conxid) ELSE delayed,
                    conxid |-> conxid, action |-> "connect", error |-> initError]
         [] action.action = "disconnect" ->
              [ctxs |-> IF c1[conxid].conx.present
                        THEN websocket_reset_context(closeConx(c1, conxid), conxid)
                        ELSE c1,
               delayed |-> RemoveConxid(delayed, conxid),
               conxid |-> conxid, action |-> "disconnect", error |-> "none"]

\* faulty variant: the connection is not connected
websocketConnectSkipped(ctxs, conxid) == ctxs

\* websocket_connect(conxid): the connection is not ready, so connect() is awaited
websocket_connect(ctxs, conxid) ==
    IF ~ctxs[conxid].conx.ready
    THEN [ctxs EXCEPT ![conxid].conx.state = "open"]
    ELSE ctxs

\* the increments updateBidAskDiff is fed: signed amounts
Increments == (0 - MaxAmount)..MaxAmount

BidAskDiffs == Prices \X Increments

\* faulty variant: the amount replaces the level's amount
updateBidAskDiffReplaces(bidAsk, currentBidsAsks, bids) == updateBidAsk(bidAsk, currentBidsAsks, bids)

updateBidAskDiff(bidAsk, currentBidsAsks, bids) ==
    LET index == searchIndexToInsertOrUpdate(bidAsk[1], currentBidsAsks, bids)
    IN IF index <= Len(currentBidsAsks) /\ currentBidsAsks[index][1] = bidAsk[1]
       THEN LET nextValue == currentBidsAsks[index][2] + bidAsk[2]
            IN IF nextValue = 0
               THEN RemoveAt(currentBidsAsks, index)
               ELSE [currentBidsAsks EXCEPT ![index] = <<bidAsk[1], nextValue>>]
       ELSE IF bidAsk[2] # 0
            THEN InsertAt(currentBidsAsks, index, bidAsk)
            ELSE currentBidsAsks

\* an empty side, bids or asks, that has received nothing
EmptySide(bids) == [bids |-> bids, levels |-> <<>>, received |-> [p \in Prices |-> 0]]

InitOB == currentOrderBook = EmptyOrderBook /\ bidsAsksDiff = EmptySide(FALSE)

\* an increment arrives and is merged into the side; the sums are kept within MaxSum
UpdateBidAskDiff ==
    /\ \E bidAsk \in BidAskDiffs :
          /\ bidsAsksDiff.received[bidAsk[1]] + bidAsk[2] \in (0 - MaxSum)..MaxSum
          /\ bidsAsksDiff' =
                [bidsAsksDiff EXCEPT
                    !.levels = updateBidAskDiff(bidAsk, @, bidsAsksDiff.bids),
                    !.received[bidAsk[1]] = @ + bidAsk[2]]
    /\ UNCHANGED <<currentOrderBook, wsvars>>

\* a delta message arrives and is merged into the book
MergeOrderBookDelta ==
    /\ \E orderbook \in OrderBookMessages, timestamp \in Timestamps :
          currentOrderBook' = mergeOrderBookDelta(currentOrderBook, orderbook, timestamp)
    /\ UNCHANGED <<bidsAsksDiff, wsvars>>

-----------------------------------------------------------------------------
(* Pending operations: futures, once-handlers, timers *)

\* future.done() or future.set_result(...) / future.set_exception(...)
setFuture(state, outcome) == IF state = "pending" THEN outcome ELSE state

\* faulty variant: the await does not wait
futureDoneAlways(state) == TRUE

\* "await future" goes on once the future holds a result or an exception
futureDone(state) == state # "pending"

\* faulty variant: no timeout is scheduled
timeoutFutureNotScheduled(pending, oid) == pending

\* timeout_future(future, scope): call_later schedules the timeout of the future
timeout_future(pending, oid) == pending \cup {oid}

\* the listener self.once(oidstr) holds for request id oid, if any
handlerOf(oid) == {h \in handlers : h.oid = oid}

symbolContext(ctxs, h) == ctxs[h.conxid].events[<<h.event, h.symbol>>]

\* faulty variant: the failure branch leaves subscribing as it is
wait4obsubscribeKeepsSubscribing(ctxs, h, success) ==
    IF success
    THEN contextSetSubscribing(
             contextSetSubscribed(ctxs, h.conxid, h.event, h.symbol, TRUE),
             h.conxid, h.event, h.symbol, FALSE)
    ELSE contextSetSubscribed(ctxs, h.conxid, h.event, h.symbol, FALSE)

\* body of wait4obsubscribe(success, ex), flags part
wait4obsubscribe(ctxs, h, success) ==
    contextSetSubscribing(
        contextSetSubscribed(ctxs, h.conxid, h.event, h.symbol, success),
        h.conxid, h.event, h.symbol, FALSE)

\* body of wait4obunsubscribe(success, ex), flags part
wait4obunsubscribe(ctxs, h, success) ==
    IF success
    THEN contextSetSubscribing(
             contextSetSubscribed(ctxs, h.conxid, h.event, h.symbol, FALSE),
             h.conxid, h.event, h.symbol, FALSE)
    ELSE ctxs

-----------------------------------------------------------------------------
(* The caller task *)

IdleCall == [pc |-> "idle", kind |-> "none", eventSymbols |-> <<>>, conxIds |-> <<>>,
             i |-> 1, flushTodo |-> <<>>, exc |-> "none", oid |-> 0, result |-> "none",
             recover |-> "none"]

\* connects: websocket_connect calls per connection id; flushes: completed runs of
\* _websocket_connect_delayed; awaited: futures awaited; actions: the action resolved per
\* request; raised: the exception a listener raised into the emit that ran it; emitted:
\* the last 'close' / 'err' notification emitted, with its connection id
NoObs == [connects |-> [c \in Conxids |-> 0], flushes |-> 0, awaited |-> 0, actions |-> <<>>,
          raised |-> "none", emitted |-> <<>>]

\* faulty variant: only the first entry is validated
firstEventValid(eventSymbols) ==
    eventSymbols = <<>> \/ websocketValidEvent(eventSymbols[1].event)

\* the "check all" loop of websocket_subscribe_all / websocket_unsubscribe_all
allValidEvents(eventSymbols) ==
    \A k \in 1..Len(eventSymbols) : websocketValidEvent(eventSymbols[k].event)

\* entry of _websocket_connect_delayed: list(self.websocketDelayedConnections.keys())
connectDelayedBegin(frame, delayed) == [frame EXCEPT !.pc = "connecting", !.flushTodo = delayed]

\* where the "check all" loop raises: the first entry whose event is not declared
firstInvalid(eventSymbols) ==
    CHOOSE k \in 1..Len(eventSymbols) :
        /\ ~websocketValidEvent(eventSymbols[k].event)
        /\ \A j \in 1..(k - 1) : websocketValidEvent(eventSymbols[j].event)

\* faulty variant: no finally clause, the exception ends the call at once
unsubscribeRaisesNoFinally(frame, exc, delayed) == [frame EXCEPT !.pc = "done", !.result = exc]

\* the exception leaves the try block of websocket_unsubscribe_all: its finally runs
unsubscribeRaises(frame, exc, delayed) == connectDelayedBegin([frame EXCEPT !.exc = exc], delayed)

\* the call ends: it returns, or raises result
callEnds(result) == [call EXCEPT !.pc = "done", !.result = result]

\* callbacks of the event loop run only while the task is suspended in an await
AtSuspension ==
    \/ call.pc \in {"idle", "await"}
    \/ call.pc = "connecting" /\ call.flushTodo # <<>>

\* no second task is suspended
NoTask == <<>>

\* the frame and the history of the task that is not running
parkedCall == IF parked = NoTask THEN IdleCall ELSE parked[1].call

parkedObs == IF parked = NoTask THEN NoObs ELSE parked[1].obs

\* the requests a frame has still to send
requestsLeft(frame) ==
    IF frame.pc \in {"resolve", "send", "usend"} \/ (frame.pc = "connecting" /\ frame.kind = "sub")
    THEN Len(frame.eventSymbols) - (IF frame.pc \in {"send", "usend"} THEN frame.i - 1 ELSE 0)
    ELSE IF frame.pc = "await" THEN Len(frame.eventSymbols) - frame.i
    ELSE 0

\* request ids are capped: a call that passes validation starts only when every request
\* of it, and of the suspended task, can get one
CanCall(eventSymbols) ==
    /\ nonce <= MaxOid
    /\ allValidEvents(eventSymbols) =>
           nonce + Len(eventSymbols) + requestsLeft(parkedCall) <= MaxOid + 1

InitWS ==
    /\ websocketContexts = [c \in Conxids |-> NoContext]
    /\ websocketDelayedConnections = <<>>
    /\ handlers = {}
    /\ futures = [o \in Oids |-> "none"]
    /\ timers = {}
    /\ sent = {}
    /\ nonce = 1
    /\ call = IdleCall
    /\ parked = NoTask
    /\ obs = NoObs

\* entry of websocket_subscribe_all(eventSymbols): the validation loop
websocket_subscribe_all ==
    \E eventSymbols \in Batches :
        /\ call.pc = "idle"
        /\ CanCall(eventSymbols)
        /\ call' = IF ~allValidEvents(eventSymbols)
                   THEN [IdleCall EXCEPT !.kind = "sub", !.pc = "done", !.result = "InvalidEvent",
                                         !.i = firstInvalid(eventSymbols)]
                   ELSE IF eventSymbols = <<>>
                        THEN connectDelayedBegin([IdleCall EXCEPT !.kind = "sub"],
                                                 websocketDelayedConnections)
                        ELSE [IdleCall EXCEPT !.kind = "sub", !.eventSymbols = eventSymbols,
                                              !.pc = "resolve"]
        /\ obs' = NoObs
        /\ UNCHANGED <<wsconf, parked, bidsAsksDiff, currentOrderBook, websocketContexts, websocketDelayedConnections,
                       handlers, futures, timers, sent, nonce>>

\* the lists _websocketContextGetSubscribedEventSymbols can return for a set of flagged
\* pairs: one entry per pair, in the insertion order of the events mapping
eventSymbolLists(pairs) ==
    {[k \in 1..Cardinality(pairs) |-> [event |-> f[k][1], symbol |-> f[k][2]]] :
        f \in {g \in [1..Cardinality(pairs) -> pairs] :
                  \A i, j \in 1..Cardinality(pairs) : i # j => g[i] # g[j]}}

\* websocketRecoverConxid(conxid): the flagged pairs are captured, the connection is
\* closed, the context is reset, and websocket_subscribe_all(eventSymbols) is entered
websocketRecoverConxid ==
    \E conxid \in Conxids :
        /\ call.pc = "idle"
        /\ nonce <= MaxOid
        /\ obs' = NoObs
        /\ IF ~websocketContexts[conxid].present
           THEN /\ call' = [IdleCall EXCEPT !.kind = "recover", !.pc = "done",
                                            !.result = "KeyError", !.recover = conxid]
                /\ UNCHANGED websocketContexts
           ELSE IF websocketCloseRaises(websocketContexts, conxid)
           THEN /\ call' = [IdleCall EXCEPT !.kind = "recover", !.pc = "done",
                                            !.result = "NotSupported", !.recover = conxid]
                /\ UNCHANGED websocketContexts
           ELSE LET captured == websocketContextGetSubscribedEventSymbols(websocketContexts, conxid)
                IN /\ nonce + Cardinality(captured) <= MaxOid + 1
                   /\ websocketContexts' =
                         websocket_reset_context(websocketClose(websocketContexts, conxid), conxid)
                   /\ \E eventSymbols \in eventSymbolLists(captured) :
                         call' = IF eventSymbols = <<>>
                                 THEN connectDelayedBegin(
                                          [IdleCall EXCEPT !.kind = "sub", !.recover = conxid],
                                          websocketDelayedConnections)
                                 ELSE [IdleCall EXCEPT !.kind = "sub", !.recover = conxid,
                                                       !.eventSymbols = eventSymbols,
                                                       !.pc = "resolve"]
        /\ UNCHANGED <<wsconf, parked, bidsAsksDiff, currentOrderBook, websocketDelayedConnections,
                       handlers, futures, timers, sent, nonce>>

\* one turn of the "prepare all conxid" loop of websocket_subscribe_all
SubscribeResolve ==
    /\ call.pc = "resolve"
    /\ LET req == call.eventSymbols[call.i]
           r == websocket_ensure_conx_active(websocketContexts, websocketDelayedConnections,
                                             req.event, req.symbol, TRUE)
       IN /\ websocketDelayedConnections' = r.delayed
          /\ obs' = [obs EXCEPT !.actions = Append(@, r.action)]
          /\ IF r.error # "none"
             THEN /\ websocketContexts' = r.ctxs
                  /\ call' = callEnds(r.error)
             ELSE /\ websocketContexts' =
                         contextSetSubscribing(r.ctxs, r.conxid, req.event, req.symbol, TRUE)
                  /\ call' = IF call.i = Len(call.eventSymbols)
                             THEN connectDelayedBegin(
                                      [call EXCEPT !.conxIds = Append(@, r.conxid), !.i = 1],
                                      r.delayed)
                             ELSE [call EXCEPT !.conxIds = Append(@, r.conxid), !.i = @ + 1]
    /\ UNCHANGED <<wsconf, parked, bidsAsksDiff, currentOrderBook, handlers, futures, timers, sent, nonce>>

\* _websocket_connect_delayed: await self.websocket_connect(conxid)
ConnectDelayedStep ==
    /\ call.pc = "connecting"
    /\ call.flushTodo # <<>>
    /\ websocketContexts' = websocket_connect(websocketContexts, Head(call.flushTodo))
    /\ obs' = [obs EXCEPT !.connects[Head(call.flushTodo)] = @ + 1]
    /\ call' = IF /\ Tail(call.flushTodo) # <<>>
                  /\ \A k \in 1..Len(websocketDelayedConnections) :
                        websocketDelayedConnections[k] # Head(Tail(call.flushTodo))
               THEN [call EXCEPT !.flushTodo = <<>>, !.exc = "KeyError"]
               ELSE [call EXCEPT !.flushTodo = Tail(@)]
    /\ UNCHANGED <<wsconf, parked, bidsAsksDiff, currentOrderBook, websocketDelayedConnections,
                   handlers, futures, timers, sent, nonce>>

\* _websocket_connect_delayed: finally self.websocketDelayedConnections = {};
\* then the send loop of websocket_subscribe_all, or the end of websocket_unsubscribe_all
ConnectDelayedFinally ==
    /\ call.pc = "connecting"
    /\ call.flushTodo = <<>>
    /\ websocketDelayedConnections' = <<>>
    /\ obs' = [obs EXCEPT !.flushes = @ + 1]
    /\ call' = IF call.kind = "sub" /\ call.exc = "none"
               THEN IF call.eventSymbols = <<>>
                    THEN callEnds("returned")
                    ELSE [call EXCEPT !.pc = "send", !.i = 1]
               ELSE callEnds(IF call.exc = "none" THEN "returned" ELSE call.exc)
    /\ UNCHANGED <<wsconf, parked, bidsAsksDiff, currentOrderBook, websocketContexts,
                   handlers, futures, timers, sent, nonce>>

\* registers the once-handler and the timeout of request id nonce, and sends the message
RegisterAndSend(kind, conxid, req) ==
    /\ handlers' = handlers \cup {[oid |-> nonce, kind |-> kind, conxid |-> conxid,
                                   event |-> req.event, symbol |-> req.symbol]}
    /\ futures' = [futures EXCEPT ![nonce] = "pending"]
    /\ timers' = timeout_future(timers, nonce)
    /\ sent' = sent \cup {nonce}
    /\ nonce' = nonce + 1

\* one turn of the send loop of websocket_subscribe_all, up to "await future"
SubscribeSend ==
    /\ call.pc = "send"
    /\ RegisterAndSend("sub", call.conxIds[call.i], call.eventSymbols[call.i])
    /\ call' = [call EXCEPT !.pc = "await", !.oid = nonce]
    /\ obs' = [obs EXCEPT !.awaited = @ + 1]
    /\ UNCHANGED <<wsconf, parked, bidsAsksDiff, currentOrderBook, websocketContexts, websocketDelayedConnections>>

\* entry of websocket_unsubscribe_all(eventSymbols): the validation loop
websocket_unsubscribe_all ==
    \E eventSymbols \in Batches :
        /\ call.pc = "idle"
        /\ CanCall(eventSymbols)
        /\ call' = IF ~allValidEvents(eventSymbols)
                   THEN [IdleCall EXCEPT !.kind = "unsub", !.pc = "done", !.result = "InvalidEvent",
                                         !.i = firstInvalid(eventSymbols)]
                   ELSE IF eventSymbols = <<>>
                        THEN connectDelayedBegin([IdleCall EXCEPT !.kind = "unsub"],
                                                 websocketDelayedConnections)
                        ELSE [IdleCall EXCEPT !.kind = "unsub", !.eventSymbols = eventSymbols,
                                              !.pc = "usend"]
        /\ obs' = NoObs
        /\ UNCHANGED <<wsconf, parked, bidsAsksDiff, currentOrderBook, websocketContexts, websocketDelayedConnections,
                       handlers, futures, timers, sent, nonce>>

\* one turn of the loop of websocket_unsubscribe_all, up to "await future"
UnsubscribeSend ==
    /\ call.pc = "usend"
    /\ LET req == call.eventSymbols[call.i]
           r == websocket_ensure_conx_active(websocketContexts, websocketDelayedConnections,
                                             req.event, req.symbol, FALSE)
       IN /\ websocketContexts' = r.ctxs
          /\ websocketDelayedConnections' = r.delayed
          /\ obs' = [obs EXCEPT !.awaited = IF r.error = "none" THEN @ + 1 ELSE @,
                                !.actions = Append(@, r.action)]
          /\ IF r.error # "none"
             THEN /\ call' = unsubscribeRaises(call, r.error, r.delayed)
                  /\ UNCHANGED <<handlers, futures, timers, sent, nonce>>
             ELSE /\ RegisterAndSend("unsub", r.conxid, req)
                  /\ call' = [call EXCEPT !.pc = "await", !.oid = nonce,
                                          !.conxIds = Append(@, r.conxid)]
    /\ UNCHANGED <<wsconf, parked, bidsAsksDiff, currentOrderBook>>

\* "await future" completes: the loop goes on, the call returns, or the exception is raised
AwaitFuture ==
    /\ call.pc = "await"
    /\ futureDone(futures[call.oid])
    /\ call' = IF futures[call.oid] = "result"
               THEN IF call.i < Len(call.eventSymbols)
                    THEN [call EXCEPT !.i = @ + 1,
                                      !.pc = IF call.kind = "sub" THEN "send" ELSE "usend"]
                    ELSE IF call.kind = "sub"
                         THEN callEnds("returned")
                         ELSE connectDelayedBegin(call, websocketDelayedConnections)
               ELSE IF call.kind = "sub"
                    THEN callEnds(futures[call.oid])
                    ELSE unsubscribeRaises(call, futures[call.oid], websocketDelayedConnections)
    /\ UNCHANGED <<wsconf, parked, bidsAsksDiff, currentOrderBook, websocketContexts, websocketDelayedConnections,
                   handlers, futures, timers, sent, nonce, obs>>

\* the caller takes the result or the exception of the call; its frame is dropped
CallerResumes ==
    /\ call.pc = "done"
    /\ call' = IdleCall
    /\ obs' = NoObs
    /\ UNCHANGED <<wsconf, parked, bidsAsksDiff, currentOrderBook, websocketContexts, websocketDelayedConnections,
                   handlers, futures, timers, sent, nonce>>

-----------------------------------------------------------------------------
(* The event loop: acknowledgements and timers *)

\* the exchange's message handler emits (oidstr, success): once removes the listener,
\* then runs it; without a listener the emit does nothing. The listener writes the flags
\* before it touches the future: on a symbol the context store does not hold, the write
\* raises KeyError and the future is left as it is.
Acknowledge(oid, success) ==
    /\ AtSuspension
    /\ oid \in sent
    /\ IF handlerOf(oid) = {}
       THEN UNCHANGED <<websocketContexts, handlers, futures, obs>>
       ELSE LET h == CHOOSE x \in handlerOf(oid) : TRUE
                keyError == /\ ~symbolContext(websocketContexts, h).present
                            /\ (h.kind = "sub" \/ success)
            IN /\ handlers' = handlers \ {h}
               /\ websocketContexts' =
                     IF keyError THEN websocketContexts
                     ELSE IF h.kind = "sub"
                          THEN wait4obsubscribe(websocketContexts, h, success)
                          ELSE wait4obunsubscribe(websocketContexts, h, success)
               /\ futures' =
                     IF keyError THEN futures
                     ELSE [futures EXCEPT ![oid] =
                              setFuture(@, IF success THEN "result" ELSE "AckError")]
               /\ obs' = [obs EXCEPT !.raised = IF keyError THEN "KeyError" ELSE @]
    /\ UNCHANGED <<wsconf, parked, bidsAsksDiff, currentOrderBook, websocketDelayedConnections, timers, sent, nonce, call>>

\* the call_later callback of timeout_future fires
TimeoutFires(oid) ==
    /\ AtSuspension
    /\ oid \in timers
    /\ timers' = timers \ {oid}
    /\ futures' = [futures EXCEPT ![oid] = setFuture(@, "Timeout")]
    /\ UNCHANGED <<wsconf, parked, bidsAsksDiff, currentOrderBook, websocketContexts, websocketDelayedConnections,
                   handlers, sent, nonce, call, obs>>

\* the event loop runs the other task: the running one is suspended in an await (of a
\* future, or of websocket_connect inside _websocket_connect_delayed), has ended, or was
\* never started; the other one is ready to go on
TaskSwitch ==
    /\ AtSuspension
    /\ IF parkedCall.pc = "await" THEN futureDone(futures[parkedCall.oid]) ELSE TRUE
    /\ <<call, obs>> # <<parkedCall, parkedObs>>
    /\ call' = parkedCall
    /\ obs' = parkedObs
    /\ parked' = IF call = IdleCall /\ obs = NoObs
                 THEN NoTask
                 ELSE <<[call |-> call, obs |-> obs]>>
    /\ UNCHANGED <<wsconf, bidsAsksDiff, currentOrderBook, websocketContexts,
                   websocketDelayedConnections, handlers, futures, timers, sent, nonce>>

\* faulty variant: the context of the connection id is reset, as in the line the
\* callbacks have commented out
connectionEventResetsContext(ctxs, conxid, current) ==
    websocket_reset_context([ctxs EXCEPT ![conxid].conx.auth = FALSE], conxid)

\* websocket_connection_close / websocket_connection_error, store part:
\* websocket_connection_info['auth'] = False, on the info record the callback was built
\* with: the one the store holds (current), or one a later initialisation has replaced
connectionEvent(ctxs, conxid, current) ==
    IF current THEN [ctxs EXCEPT ![conxid].conx.auth = FALSE] ELSE ctxs

\* the connection has emitted 'close': it is not active any more
transportClosed(ctxs, conxid, current) ==
    IF current THEN [ctxs EXCEPT ![conxid].conx.state = "closed"] ELSE ctxs

\* @conx.on('close'): a connection built for conxid emits 'close'
TransportClose(conxid, current) ==
    /\ AtSuspension
    /\ websocketContexts[conxid].conx.present
    /\ websocketContexts' =
          connectionEvent(transportClosed(websocketContexts, conxid, current), conxid, current)
    /\ obs' = [obs EXCEPT !.emitted = <<"close", conxid>>]
    /\ UNCHANGED <<wsconf, parked, bidsAsksDiff, currentOrderBook, websocketDelayedConnections,
                   handlers, futures, timers, sent, nonce, call>>

\* @conx.on('err'): a connection built for conxid emits 'err'
TransportError(conxid, current) ==
    /\ AtSuspension
    /\ websocketContexts[conxid].conx.present
    /\ websocketContexts' = connectionEvent(websocketContexts, conxid, current)
    /\ obs' = [obs EXCEPT !.emitted = <<"err", conxid>>]
    /\ UNCHANGED <<wsconf, parked, bidsAsksDiff, currentOrderBook, websocketDelayedConnections,
                   handlers, futures, timers, sent, nonce, call>>

\* _contextSetConnectionAuth(conxid, True): the exchange marks the open connection as
\* authenticated
ContextSetConnectionAuth(conxid) ==
    /\ AtSuspension
    /\ websocketContexts[conxid].conx.present
    /\ websocketContexts[conxid].conx.state = "open"
    /\ websocketContexts' = [websocketContexts EXCEPT ![conxid].conx.auth = TRUE]
    /\ UNCHANGED <<wsconf, parked, bidsAsksDiff, currentOrderBook, websocketDelayedConnections,
                   handlers, futures, timers, sent, nonce, call, obs>>

-----------------------------------------------------------------------------
(* Specifications *)

Init == InitOB /\ wsconf \in Configs /\ InitWS

TaskStep ==
    \/ SubscribeResolve
    \/ ConnectDelayedStep
    \/ ConnectDelayedFinally
    \/ SubscribeSend
    \/ UnsubscribeSend
    \/ AwaitFuture
    \/ CallerResumes

Next ==
    \/ websocket_subscribe_all
    \/ websocket_unsubscribe_all
    \/ websocketRecoverConxid
    \/ TaskStep
    \/ \E oid \in Oids, success \in BOOLEAN : Acknowledge(oid, success)
    \/ \E oid \in Oids : TimeoutFires(oid)

Spec == Init /\ [][Next]_vars

\* what the asyncio event loop runs by itself: the ready task, the due timers
EventLoopStep == TaskStep \/ \E oid \in Oids : TimeoutFires(oid)

\* the event loop keeps running what is ready: the task, the call_later callbacks
FairSpec == Spec /\ WF_vars(EventLoopStep)

InitBook == Init /\ wsconf = StreamsConf

NextOB == MergeOrderBookDelta

SpecOB == InitBook /\ [][NextOB]_vars

TransportEvent ==
    \E conxid \in Conxids, current \in BOOLEAN :
        TransportClose(conxid, current) \/ TransportError(conxid, current)

NextTransport ==
    \/ Next
    \/ TransportEvent
    \/ \E conxid \in Conxids : ContextSetConnectionAuth(conxid)

InitTransport == Init /\ wsconf = PlainConf

\* the subscription layer together with the events of the transport
SpecTransport == InitTransport /\ [][NextTransport]_vars

\* what a running websocket_subscribe_all task does
SubscribeStep ==
    \/ SubscribeResolve
    \/ ConnectDelayedStep
    \/ ConnectDelayedFinally
    \/ SubscribeSend
    \/ AwaitFuture
    \/ CallerResumes

NextTasks ==
    \/ websocket_subscribe_all
    \/ SubscribeStep
    \/ TaskSwitch
    \/ \E oid \in Oids, success \in BOOLEAN : Acknowledge(oid, success)
    \/ \E oid \in Oids : TimeoutFires(oid)

\* two websocket_subscribe_all calls as cooperative tasks of one event loop
SpecTasks == InitBook /\ [][NextTasks]_vars

InitSockets == InitOB /\ wsconf = SocketsConf /\ InitWS

\* the exchange of the socket.io, pusher and signalr templates
SpecSockets == InitSockets /\ [][Next]_vars

InitDiff ==
    /\ currentOrderBook = EmptyOrderBook
    /\ bidsAsksDiff \in {EmptySide(bids) : bids \in BOOLEAN}
    /\ wsconf = StreamsConf
    /\ InitWS

NextDiff == UpdateBidAskDiff

\* a side fed with increments through updateBidAskDiff
SpecDiff == InitDiff /\ [][NextDiff]_vars

InitMisconfigured == InitOB /\ wsconf = MisconfiguredConf /\ InitWS

\* the exchange whose configuration holds the template of unknown type
SpecMisconfigured == InitMisconfigured /\ [][Next]_vars

-----------------------------------------------------------------------------
(* Properties *)

StrictlySorted(side, bids) ==
    \A k \in 1..(Len(side) - 1) :
        IF bids THEN side[k][1] > side[k + 1][1] ELSE side[k][1] < side[k + 1][1]

NoDuplicatePrice(side) ==
    \A j, k \in 1..Len(side) : j # k => side[j][1] # side[k][1]

NoZeroAmount(side) == \A k \in 1..Len(side) : side[k][2] # 0

\* C1: after any sequence of deltas merged through mergeOrderBookDelta / updateBidAsk,
\* bids are strictly descending and asks strictly ascending by price, no price occurs
\* twice in a side, and no level has amount 0.
C1_SidesStaySorted ==
    /\ StrictlySorted(currentOrderBook.bids, TRUE)
    /\ StrictlySorted(currentOrderBook.asks, FALSE)
    /\ NoDuplicatePrice(currentOrderBook.bids)
    /\ NoDuplicatePrice(currentOrderBook.asks)
    /\ NoZeroAmount(currentOrderBook.bids)
    /\ NoZeroAmount(currentOrderBook.asks)

\* both sides hold several levels, merged one delta at a time
C1_Witness ==
    /\ Len(currentOrderBook.bids) >= 2
    /\ Len(currentOrderBook.asks) >= 2
    /\ currentOrderBook.bids[1][2] # currentOrderBook.bids[2][2]

StoreAndQueues ==
    <<websocketContexts, websocketDelayedConnections, handlers, futures, timers, sent, nonce>>

\* C2: a call whose batch names an undeclared event, at any position, raises InvalidEvent
\* before any side effect: a call that goes on past validation has only declared events,
\* and the raising step changes no context, no delayed connection, no connection, no
\* handler, future or timer, and sends nothing.
C2_InvalidEventRaisesFirst ==
    [][(call.pc = "idle" /\ call'.pc # "idle") =>
          /\ call'.result # "InvalidEvent" =>
                \A k \in 1..Len(call'.eventSymbols) :
                    call'.eventSymbols[k].event \in wsconfEvents
          /\ call'.result = "InvalidEvent" =>
                /\ call'.pc = "done"
                /\ StoreAndQueues' = StoreAndQueues
                /\ obs' = NoObs]_vars

\* a batch whose second entry is invalid was rejected while a context already existed
C2_Witness ==
    /\ call.pc = "done"
    /\ call.result = "InvalidEvent"
    /\ call.i = 2
    /\ \E c \in Conxids : websocketContexts[c].conx.present

\* the connection ids for which a request of the running call resolved a connect/reconnect
QueuedByCall ==
    {c \in Conxids : \E k \in 1..Len(obs.actions) :
        call.conxIds[k] = c /\ obs.actions[k] \in {"connect", "reconnect"}}

\* C3: in a websocket_subscribe_all call, once the batch is flushed, websocket_connect was
\* called exactly once for every connection id the batch queued, however many requests
\* target it, and for no other one; the batch was flushed once.
C3_OneConnectPerQueuedConxid ==
    (call.kind = "sub" /\ call.pc \in {"send", "await", "done"}
                       /\ call.result \in {"none", "returned", "AckError", "Timeout"}) =>
        /\ obs.flushes = 1
        /\ \A c \in Conxids : obs.connects[c] = IF c \in QueuedByCall THEN 1 ELSE 0

\* a call with two requests on connection A and one that reaches A and B
C3_Witness ==
    /\ call.kind = "sub"
    /\ call.pc = "done"
    /\ call.result = "returned"
    /\ Len(call.eventSymbols) = 2
    /\ obs.connects["A"] = 1
    /\ obs.connects["B"] = 1

\* C4 (as claimed): in subscribe and unsubscribe calls alike, the flush runs after every
\* request is resolved and before the first acknowledgement of the call is awaited.
C4_FlushBeforeFirstAwait ==
    call.pc = "connecting" =>
        /\ obs.awaited = 0
        /\ Len(call.conxIds) = Len(call.eventSymbols)

\* C4 (amended): a websocket_subscribe_all call that resolves all its requests flushes
\* exactly once, after the last resolution and before the first await; a
\* websocket_unsubscribe_all call that passes validation flushes exactly once, in its
\* finally clause: after every acknowledgement was awaited, or after the first failure.
C4_FlushOncePerCall ==
    /\ (call.kind = "sub" /\ call.pc = "resolve") => obs.flushes = 0 /\ obs.awaited = 0
    /\ (call.kind = "sub" /\ call.pc = "connecting") =>
            /\ obs.flushes = 0
            /\ obs.awaited = 0
            /\ Len(call.conxIds) = Len(call.eventSymbols)
    /\ (call.kind = "sub" /\ call.pc \in {"send", "await"}) => obs.flushes = 1
    /\ (call.kind = "sub" /\ call.pc = "done"
                          /\ call.result \in {"returned", "AckError", "Timeout"}) =>
            obs.flushes = 1
    /\ (call.kind = "unsub" /\ call.pc \in {"usend", "await", "connecting"}) => obs.flushes = 0
    /\ (call.kind = "unsub" /\ call.pc = "connecting") =>
            \/ call.exc # "none"
            \/ obs.awaited = Len(call.eventSymbols)
    /\ (call.kind = "unsub" /\ call.pc = "done" /\ call.result # "InvalidEvent") =>
            obs.flushes = 1

\* an unsubscribe call reconnected a connection in its finally flush, after its await
C4_Witness ==
    /\ call.kind = "unsub"
    /\ call.pc = "done"
    /\ obs.awaited >= 1
    /\ obs.flushes = 1
    /\ \E c \in Conxids : obs.connects[c] = 1

\* C5: when the acknowledgement of a subscribe request arrives, the symbol ends with
\* subscribing=false, and with subscribed=true on success, subscribed=false on failure;
\* the failure is raised to the caller awaiting that request.
C5_AckSetsFlags ==
    [][/\ \A h \in handlers :
            (h.kind = "sub" /\ h \notin handlers') =>
                LET after == symbolContext(websocketContexts', h)
                IN /\ ~after.subscribing
                   /\ futures[h.oid] = "pending" =>
                         \/ futures'[h.oid] = "result" /\ after.subscribed
                         \/ futures'[h.oid] = "AckError" /\ ~after.subscribed
       /\ (call.kind = "sub" /\ call.pc = "await" /\ call'.pc # "await"
                             /\ futures[call.oid] = "AckError") =>
                call'.pc = "done" /\ call'.result = "AckError"]_vars

\* a failed acknowledgement was raised, its symbol is unsubscribed
C5_Witness ==
    /\ call.kind = "sub"
    /\ call.pc = "done"
    /\ call.result = "AckError"
    /\ LET after == websocketContexts[call.conxIds[call.i]].events[
                        <<call.eventSymbols[call.i].event, call.eventSymbols[call.i].symbol>>]
       IN ~after.subscribed /\ ~after.subscribing

\* C6 (as claimed): when a request of a websocket_subscribe_all batch fails, every sibling
\* still has its message sent and its acknowledgement awaited, and none is left subscribing.
C6_SiblingsProceed ==
    (call.kind = "sub" /\ call.pc = "done" /\ call.result \in {"AckError", "Timeout"}) =>
        /\ obs.awaited = Len(call.eventSymbols)
        /\ \A k \in 1..Len(call.eventSymbols) :
              k # call.i =>
                 ~websocketContexts[call.conxIds[k]].events[
                       <<call.eventSymbols[k].event, call.eventSymbols[k].symbol>>].subscribing

\* C7 (as claimed): when a subscribe request times out, its symbol is rolled back:
\* subscribed=false and subscribing=false once the timeout error is raised.
C7_TimeoutRollsBack ==
    (call.kind = "sub" /\ call.pc = "done" /\ call.result = "Timeout") =>
        LET after == websocketContexts[call.conxIds[call.i]].events[
                        <<call.eventSymbols[call.i].event, call.eventSymbols[call.i].symbol>>]
        IN ~after.subscribed /\ ~after.subscribing

CallInProgress == call.pc \notin {"idle", "done"}

NoPendingFuture == \A o \in Oids : futures[o] # "pending"

\* C8: under the fairness of the event loop, every pending operation resolves (by its
\* acknowledgement or by its timeout) and every subscribe/unsubscribe call in progress
\* returns or raises.
C8_EveryCallEnds ==
    (CallInProgress \/ ~NoPendingFuture) ~> (call.pc = "done" /\ NoPendingFuture)

\* a call whose acknowledgement never came was ended by the timeout
C8_Witness ==
    /\ call.pc = "done"
    /\ call.result = "Timeout"
    /\ futures[call.oid] = "Timeout"

ResolvedOnce ==
    \A o \in Oids : futures[o] \notin {"none", "pending"} => futures'[o] = futures[o]

\* C9 (as claimed): once the future of a request is resolved, by acknowledgement or by
\* timeout, no later acknowledgement or timer changes its outcome, and a listener run for
\* an already resolved request raises no error.
C9_LateEventsChangeNothingAndRaiseNothing ==
    [][/\ ResolvedOnce
       /\ \A h \in handlers :
             (h \notin handlers' /\ futures[h.oid] # "pending") => obs'.raised = obs.raised]_vars

\* C10 (as claimed): an acknowledgement for a request whose future is already resolved
\* changes no state, in particular no subscribed/subscribing flag.
C10_LateAckChangesNothing ==
    [][\A h \in handlers :
          (h \notin handlers' /\ futures[h.oid] # "pending") =>
              websocketContexts' = websocketContexts]_vars

\* the pairs flagged subscribed or subscribing on a connection id
Flagged(ctxs, conxid) ==
    {p \in Pairs : ctxs[conxid].events[p].subscribed \/ ctxs[conxid].events[p].subscribing}

\* C11 (as claimed): no symbol of the context store is subscribed and subscribing at once.
C11_FlagsExclusive ==
    \A c \in Conxids : \A p \in Pairs :
        ~(websocketContexts[c].events[p].subscribed /\ websocketContexts[c].events[p].subscribing)

\* the request the running call resolves in this step, as a pair
CurrentPair == <<call.eventSymbols[call.i].event, call.eventSymbols[call.i].symbol>>

CurrentConxid == websocketGetConxid4Event(CurrentPair[1], CurrentPair[2])

\* C12: on a ws-s template, an unsubscribe request for a subscribed or subscribing pair
\* resolves to disconnect when no other pair is subscribed or subscribing on the connection,
\* and otherwise to reconnect, the new connection built for exactly the other pairs.
C12_UnsubscribeResolvesByRest ==
    [][(/\ call.pc = "usend"
        /\ conxTplType(conxTplOf(CurrentPair[1])) = "ws-s"
        /\ CurrentPair \in Flagged(websocketContexts, CurrentConxid)) =>
          LET rest == Flagged(websocketContexts, CurrentConxid) \ {CurrentPair}
              action == obs'.actions[Len(obs'.actions)]
              conx == websocketContexts'[CurrentConxid].conx
          IN IF rest = {}
             THEN action = "disconnect"
             ELSE /\ action = "reconnect"
                  /\ conx.state = "new"
                  /\ conx.url = rest]_vars

\* one of two flagged pairs was unsubscribed: the connection was rebuilt for the other one
C12_Witness ==
    /\ call.kind = "unsub"
    /\ call.pc = "await"
    /\ obs.actions = <<"reconnect">>
    /\ websocketContexts["A"].conx.url = {<<"ob", "s2">>}

C14_PlainUnsubscribeDisconnects ==
    [][(/\ call.pc = "usend"
        /\ conxTplType(conxTplOf(CurrentPair[1])) = "ws"
        /\ websocketContexts[CurrentConxid].events[CurrentPair].subscribed
        /\ Flagged(websocketContexts, CurrentConxid) = {CurrentPair}) =>
          /\ obs'.actions[Len(obs'.actions)] = "disconnect"
          /\ Flagged(websocketContexts', CurrentConxid) = {}]_vars

\* the requests of the current call whose connection id is in the delayed batch when the
\* loop is left: resolved to connect or reconnect, and not resolved to disconnect later on
QueuedAtLoopEnd ==
    {k \in 1..Len(call.conxIds) :
        /\ obs.actions[k] \in {"connect", "reconnect"}
        /\ \A j \in (k + 1)..Len(call.conxIds) :
              ~(call.conxIds[j] = call.conxIds[k] /\ obs.actions[j] = "disconnect")}

\* C15: when websocket_unsubscribe_all ends after its validation, with a result or with
\* the error of a failed or timed-out acknowledgement, the delayed flush has run once,
\* the delayed batch is empty, every connection id queued by the call is connected
\* exactly once and is open, and no connection is left initialized but not connected.
C15_UnsubscribeAlwaysFlushes ==
    (call.kind = "unsub" /\ call.pc = "done" /\ call.result # "InvalidEvent") =>
        /\ obs.flushes = 1
        /\ websocketDelayedConnections = <<>>
        /\ \A k \in QueuedAtLoopEnd :
              /\ obs.connects[call.conxIds[k]] = 1
              /\ websocketContexts[call.conxIds[k]].conx.state = "open"
        /\ \A c \in Conxids : websocketContexts[c].conx.state # "new"

C15_Witness ==
    /\ call.kind = "unsub" /\ call.pc = "done" /\ call.result \in {"AckError", "Timeout"}
    /\ obs.actions = <<"reconnect">>
    /\ obs.connects["A"] = 1
    /\ websocketContexts["A"].conx.state = "open"

\* the pairs a list of requests names
PairsOf(eventSymbols) ==
    {<<eventSymbols[k].event, eventSymbols[k].symbol>> : k \in 1..Len(eventSymbols)}

\* no listener has run after the timeout of its request
NoLateAcknowledgement ==
    \A oid \in sent : futures[oid] = "Timeout" => handlerOf(oid) # {}

HoldsPrice(side, price) == \E k \in 1..Len(side) : side[k][1] = price

WithoutPrice(side, price) == SelectSeq(side, LAMBDA level : level[1] # price)

RemovalOnSide(side, bids) ==
    \A price \in Prices :
        /\ ~HoldsPrice(side, price) =>
              /\ updateBidAsk(<<price, 0>>, side, bids) = side
              /\ \A amount \in Amounts \ {0} :
                    updateBidAsk(<<price, 0>>, updateBidAsk(<<price, amount>>, side, bids), bids)
                        = side
        /\ HoldsPrice(side, price) =>
              /\ updateBidAsk(<<price, 0>>, side, bids) = WithoutPrice(side, price)
              /\ Len(updateBidAsk(<<price, 0>>, side, bids)) = Len(side) - 1

\* C17: on every side the book reaches, updateBidAsk with (p, 0) leaves the side as it is
\* when p is not held, and removes the level at p and nothing else when p is held;
\* (p, a) with a # 0 followed by (p, 0) on a side that does not hold p gives the side back.
C17_ZeroAmountRemovesExactlyOneLevel ==
    /\ RemovalOnSide(currentOrderBook.bids, TRUE)
    /\ RemovalOnSide(currentOrderBook.asks, FALSE)

\* bids hold two levels and removing the best one leaves the other; asks are empty and
\* an insert followed by its removal leaves them empty
C17_Witness ==
    /\ Len(currentOrderBook.bids) = 2
    /\ updateBidAsk(<<currentOrderBook.bids[1][1], 0>>, currentOrderBook.bids, TRUE)
          = Tail(currentOrderBook.bids)
    /\ currentOrderBook.asks = <<>>
    /\ currentOrderBook.timestamp # NoTimestamp
    /\ updateBidAsk(<<1, 0>>, updateBidAsk(<<1, 1>>, currentOrderBook.asks, FALSE), FALSE) = <<>>

IdempotentOnSide(side, bids) ==
    \A bidAsk \in BidAsks :
        /\ updateBidAsk(bidAsk, updateBidAsk(bidAsk, side, bids), bids)
              = updateBidAsk(bidAsk, side, bids)
        /\ (\E k \in 1..Len(side) : side[k] = bidAsk) => updateBidAsk(bidAsk, side, bids) = side

\* C18: on every side the book reaches and for every delta (price, amount), updateBidAsk
\* applied twice gives what it gives applied once, and a delta the side already holds,
\* price and amount, leaves the side as it is.
C18_ReplaceMergeIdempotent ==
    /\ IdempotentOnSide(currentOrderBook.bids, TRUE)
    /\ IdempotentOnSide(currentOrderBook.asks, FALSE)

\* both sides hold two levels, and the second ask merged again leaves the asks as they are
C18_Witness ==
    /\ Len(currentOrderBook.bids) = 2
    /\ Len(currentOrderBook.asks) = 2
    /\ updateBidAsk(currentOrderBook.asks[2], currentOrderBook.asks, FALSE) = currentOrderBook.asks
    /\ updateBidAsk(<<currentOrderBook.bids[1][1], 0>>, currentOrderBook.bids, TRUE)
          # currentOrderBook.bids

\* C19 (as claimed): every malformed message makes mergeOrderBookDelta raise and leaves
\* the book as it is, whatever the timestamp.
C19_MalformedPayloadRejected ==
    \A orderbook \in MalformedMessages :
        /\ mergeOrderBookDeltaRaises(orderbook) # "none"
        /\ \A timestamp \in Timestamps :
              mergeOrderBookDelta(currentOrderBook, orderbook, timestamp) = currentOrderBook

\* the resolver has nothing to do: a subscription of a flagged pair, an unsubscription of
\* a pair that is not flagged
NothingToDo(pair, subscribe) ==
    subscribe <=> pair \in Flagged(websocketContexts, websocketGetConxid4Event(pair[1], pair[2]))

\* C20: in every reachable store, for every pair of a declared event and both directions,
\* _websocket_ensure_conx_active resolves no action exactly when a subscription is asked
\* for a pair that is subscribed or subscribing, or an unsubscription for a pair that is
\* neither; it then raises nothing and leaves every connection, every flag and the
\* delayed batch as they are.
C20_NoActionChangesNothing ==
    \A pair \in {p \in Pairs : websocketValidEvent(p[1])}, subscribe \in BOOLEAN :
        LET r == websocket_ensure_conx_active(websocketContexts, websocketDelayedConnections,
                                              pair[1], pair[2], subscribe)
        IN /\ (r.action = "none" /\ r.error = "none") <=> NothingToDo(pair, subscribe)
           /\ NothingToDo(pair, subscribe) =>
                 /\ r.delayed = websocketDelayedConnections
                 /\ \A c \in Conxids :
                       /\ r.ctxs[c].conx = websocketContexts[c].conx
                       /\ r.ctxs[c].events = websocketContexts[c].events

\* an unsubscription of a pair that was never subscribed has been resolved: no action, no
\* connection, nothing queued
C20_Witness ==
    /\ call.kind = "unsub" /\ call.pc = "await"
    /\ obs.actions = <<"none">>
    /\ websocketDelayedConnections = <<>>
    /\ ~websocketContexts[CurrentConxid].conx.present
    /\ \E p \in Pairs : websocketContexts["A"].events[p].subscribing

\* C21 (as claimed): when the resolution loop of websocket_subscribe_all is left for the
\* flush, every pair of the batch is marked subscribing.
C21_BatchSubscribingAfterResolution ==
    [][(call.kind = "sub" /\ call.pc = "resolve" /\ call'.pc = "connecting") =>
          \A k \in 1..Len(call.eventSymbols) :
              LET event == call.eventSymbols[k].event
                  symbol == call.eventSymbols[k].symbol
              IN websocketContexts'[websocketGetConxid4Event(event, symbol)]
                    .events[<<event, symbol>>].subscribing]_vars

\* C22 (as claimed): while no websocket_subscribe_all / websocket_unsubscribe_all call is
\* in progress, websocketDelayedConnections is empty.
C22_DelayedEmptyBetweenCalls ==
    call.pc \in {"idle", "done"} => websocketDelayedConnections = <<>>

\* the requests of the current call whose template has a type the resolver knows
WellConfigured ==
    {k \in 1..Len(call.eventSymbols) :
        conxTplType(conxTplOf(call.eventSymbols[k].event)) \in {"ws", "ws-s"}}

\* C26 (as claimed): when a websocket_subscribe_all call ends with the configuration error
\* of one request, every other request of the batch was resolved, the connections they
\* queued were connected at the flush, and their messages were sent and awaited.
C26_ConfigErrorFatalForOneRequest ==
    (call.kind = "sub" /\ call.pc = "done" /\ call.result = "NotSupported") =>
        /\ \A k \in WellConfigured : k <= Len(obs.actions)
        /\ WellConfigured # {} => obs.flushes = 1
        /\ \A k \in 1..Len(call.conxIds) :
              obs.actions[k] \in {"connect", "reconnect"} => obs.connects[call.conxIds[k]] = 1
        /\ obs.awaited = Cardinality(WellConfigured)

\* the pairs of the current batch that resolve to connection id conxid
BatchPairsOn(conxid) ==
    {p \in PairsOf(call.eventSymbols) : websocketGetConxid4Event(p[1], p[2]) = conxid}

\* the requests of the current call that resolved a reconnect
Reconnected(actions) == {k \in 1..Len(call.conxIds) : actions[k] = "reconnect"}

\* C23: in a websocket_subscribe_all call every request is resolved against what the
\* earlier ones left: when the resolution loop ends, the URL of each aggregate-stream
\* connection the batch reconnects encodes every pair of the batch on that connection and
\* every pair subscribed or subscribing before, and nothing else; when the flush ends,
\* the connection that is open on that connection id carries a URL with those pairs.
C23_LaterRequestsSeeEarlierOnes ==
    [][/\ (call.kind = "sub" /\ call.pc = "resolve" /\ call'.pc = "connecting") =>
            \A k \in Reconnected(obs'.actions) :
                LET conxid == call'.conxIds[k]
                IN /\ BatchPairsOn(conxid) \subseteq websocketContexts'[conxid].conx.url
                   /\ websocketContexts'[conxid].conx.url = Flagged(websocketContexts', conxid)
                   /\ Flagged(websocketContexts, conxid) \subseteq
                          websocketContexts'[conxid].conx.url
       /\ (call.kind = "sub" /\ call.pc = "connecting" /\ call'.pc = "send") =>
            \A k \in Reconnected(obs.actions) :
                /\ websocketContexts'[call.conxIds[k]].conx.state = "open"
                /\ BatchPairsOn(call.conxIds[k]) \subseteq
                       websocketContexts'[call.conxIds[k]].conx.url]_vars

\* two requests of one batch on connection A: the open connection carries both symbols
C23_Witness ==
    /\ call.kind = "sub" /\ call.pc = "send" /\ call.i = 1
    /\ call.eventSymbols = <<[event |-> "ob", symbol |-> "s1"], [event |-> "ob", symbol |-> "s2"]>>
    /\ obs.actions = <<"reconnect", "reconnect">>
    /\ websocketContexts["A"].conx.state = "open"
    /\ websocketContexts["A"].conx.url = {<<"ob", "s1">>, <<"ob", "s2">>}

\* C24 (as claimed): a request whose future is settled has no listener left, and while no
\* call is awaiting no request-id listener is registered.
C24_ResolvedOperationDestroyed ==
    /\ \A oid \in sent : futures[oid] # "pending" => handlerOf(oid) = {}
    /\ call.pc \in {"idle", "done"} => handlers = {}

\* C25 (as claimed): in every store, for every connection id, event and symbol, the reads
\* _contextIsSubscribed and _contextIsSubscribing raise nothing, and return false when the
\* connection id, the event or the symbol is unknown; no call ends with the KeyError of a
\* read of the store.
C25_ReadsNeverRaise ==
    /\ \A conxid \in Conxids, p \in Pairs :
          /\ contextReadRaises(websocketContexts, conxid) = "none"
          /\ ~websocketContexts[conxid].events[p].present =>
                /\ ~contextIsSubscribed(websocketContexts, conxid, p[1], p[2])
                /\ ~contextIsSubscribing(websocketContexts, conxid, p[1], p[2])
    /\ call.result # "KeyError"

\* C27 (as claimed): the subscribed flag of a symbol turns from false to true only in a
\* step that starts with its subscribing flag true.
C27_SubscribedOnlyFromSubscribing ==
    [][\A c \in Conxids, p \in Pairs :
          (~websocketContexts[c].events[p].subscribed
              /\ websocketContexts'[c].events[p].subscribed) =>
                websocketContexts[c].events[p].subscribing]_vars

\* C30: in a websocket_subscribe_all or websocket_unsubscribe_all call a message is sent
\* only when no operation is pending, the message of a later request only after the
\* operation of the request before it has resolved with success, and the only operation
\* that is ever pending is the one the call is awaiting.
C30_OneRequestAtATime ==
    [][/\ sent' # sent =>
            /\ NoPendingFuture
            /\ sent' = sent \cup {nonce}
            /\ call.i > 1 => futures[call.oid] = "result" /\ call.oid = nonce - 1
       /\ \A o \in Oids :
            futures'[o] = "pending" => call'.pc = "await" /\ call'.oid = o]_vars

\* the second request of a batch is awaited after the first was acknowledged
C30_Witness ==
    /\ call.kind = "sub" /\ call.pc = "await" /\ call.i = 2
    /\ futures[call.oid - 1] = "result"
    /\ futures[call.oid] = "pending"
    /\ handlerOf(call.oid - 1) = {}

\* C28: a 'close' or 'err' event of a connection leaves every subscribed and subscribing
\* flag, every symbol entry, the delayed batch and every other connection as they are; it
\* clears the authenticated flag of its connection and emits the notification with the
\* connection id. A flag changes only in a step of a subscribe, unsubscribe or recover
\* call or in the run of an acknowledgement listener.
C28_TransportEventsKeepFlags ==
    [][/\ TransportEvent =>
            /\ \A c \in Conxids : websocketContexts'[c].events = websocketContexts[c].events
            /\ obs'.emitted \in {"close", "err"} \X Conxids
            /\ \A c \in Conxids :
                  IF c = obs'.emitted[2]
                  THEN /\ websocketContexts'[c].conx.url = websocketContexts[c].conx.url
                       /\ websocketContexts'[c].conx.auth => websocketContexts[c].conx.auth
                  ELSE websocketContexts'[c].conx = websocketContexts[c].conx
            /\ UNCHANGED <<websocketDelayedConnections, handlers, futures, call>>
       /\ (\E c \in Conxids : websocketContexts'[c].events # websocketContexts[c].events) =>
            call' # call \/ handlers' # handlers]_vars

\* a subscribed symbol whose connection has emitted 'close'
C28_Witness ==
    /\ obs.emitted = <<"close", "C">>
    /\ ~websocketContexts["C"].conx.auth
    /\ websocketContexts["C"].conx.state = "closed"
    /\ websocketContexts["C"].events[<<"tick", "s1">>].subscribed
    /\ call.pc = "idle"

\* C29: on a side that starts empty and is fed signed integer increments through
\* updateBidAskDiff, a price is held exactly when the sum of the increments received for
\* it is not zero, its amount is that sum, and the side is strictly sorted without a
\* duplicate price; the side is therefore a function of the sums, whatever the order of
\* the increments.
C29_AdditiveSideHoldsSums ==
    LET levels == bidsAsksDiff.levels
        received == bidsAsksDiff.received
    IN /\ \A price \in Prices : HoldsPrice(levels, price) <=> received[price] # 0
       /\ \A k \in 1..Len(levels) : levels[k][2] = received[levels[k][1]]
       /\ StrictlySorted(levels, bidsAsksDiff.bids)
       /\ NoDuplicatePrice(levels)

\* one price summed beyond a single increment, the other summed back to zero and removed
C29_Witness ==
    /\ bidsAsksDiff.bids
    /\ bidsAsksDiff.levels = <<<<2, MaxAmount + 1>>>>
    /\ bidsAsksDiff.received[1] = 0

\* C31: every send step leaves the acknowledgement handler of the request id registered,
\* its timeout scheduled and its future pending, and an acknowledgement delivered to a
\* pending request that holds its handler resolves the request: the future is no longer
\* pending after the handler has run.
C31_AcknowledgementResolvesPending ==
    [][/\ sent' # sent =>
            /\ \E h \in handlers' : h.oid = nonce
            /\ nonce \in timers'
            /\ futures'[nonce] = "pending"
       /\ \A oid \in sent :
            (/\ futures[oid] = "pending"
             /\ handlerOf(oid) # {}
             /\ handlerOf(oid) \cap handlers' = {})
            => futures'[oid] # "pending"]_vars

\* C32: with two websocket_subscribe_all calls interleaved at their awaits, the
\* connection of every connection id a call has queued is open when the call sends its
\* first subscribe message, and the flush of a call clears from the delayed connections
\* only connection ids it has connected itself.
C32_FlushConnectsWhatItClears ==
    [][/\ (call.pc = "send" /\ call.i = 1 /\ sent' # sent) =>
            \A k \in 1..Len(call.conxIds) :
                obs.actions[k] \in {"connect", "reconnect"} =>
                    websocketContexts[call.conxIds[k]].conx.state = "open"
       /\ (call.pc = "connecting" /\ websocketDelayedConnections' = <<>>) =>
            \A k \in 1..Len(websocketDelayedConnections) :
                obs.connects[websocketDelayedConnections[k]] >= 1]_vars

\* C33: whenever no subscribe/unsubscribe call is in progress, the pairs encoded in the
\* URL of every open connection of an aggregate-stream (ws-s) template are exactly the pairs
\* flagged subscribed or subscribing in the context of its connection id.
C33_StreamUrlMatchesFlags ==
    ~CallInProgress =>
        \A c \in Conxids :
            (conxTplType(c) = "ws-s" /\ isActive(websocketContexts[c].conx)) =>
                websocketContexts[c].conx.url = Flagged(websocketContexts, c)

\* C34: whenever a subscribe or unsubscribe request is resolved to a connect or reconnect
\* action, the initialisation of its connection does not fail with NotSupported.
C34_ResolvedActionInitialises ==
    [][(/\ Len(obs'.actions) = Len(obs.actions) + 1
        /\ obs'.actions[Len(obs'.actions)] \in {"connect", "reconnect"})
       => (call'.result # "NotSupported" /\ call'.exc # "NotSupported")]_vars

====
